---- MODULE Spec2Model ----
(***************************************************************************)
(* The sinuous bundle matrix (scripts/bundles.js, in the version that      *)
(* expands the descriptors with mk): the descriptor list is expanded by    *)
(* mk into one rollup config per format, every config is                   *)
(* completed by makeBundleConfigs (output plugin chain, import rewrite of  *)
(* ESM externals), and rollup then runs a job's output plugins in order.   *)
(*                                                                         *)
(* Strings.  A path or a module identifier is a sequence of tokens: "."    *)
(* and "/" are tokens of their own, every other token is a word holding    *)
(* neither "." nor "/".  'map/mini' is <<"map", "/", "mini">> and          *)
(* '../sinuous.js' is <<".", ".", "/", "sinuous", ".", "js">>, so that      *)
(* String.replace('..', '.') is a replacement on the sequence.             *)
(* Objects.  A JS object is a function from its keys; an absent key is the *)
(* value undefined; {...a, ...b} is b @@ a.                                 *)
(***************************************************************************)
EXTENDS Integers, Sequences, FiniteSets, TLC

VARIABLES
    descriptors,     \* the arguments of the mk(...) calls of the array literal
    pc,              \* position of the module's evaluation
    snippetArrays,   \* results of the mk calls evaluated so far (array literal)
    bundleNames,     \* const bundleNames = []
    bundleSnippets,  \* the flattened array
    bundles,         \* bundleSnippets.map(makeBundleConfigs), built so far
    running,         \* index of the job rollup is generating, 0 when idle
    ran,             \* ids of the output plugins already run for that job
    batteryFormat,   \* format whose cleanup battery is applied to `code`
    code,            \* a chunk's text, a sequence of characters
    runs,            \* how many times the battery was applied to `code`
    first            \* the text after the first application

vars == <<descriptors, pc, snippetArrays, bundleNames, bundleSnippets, bundles,
          running, ran, batteryFormat, code, runs, first>>

batteryVars == <<batteryFormat, code, runs, first>>

matrixVars == <<descriptors, pc, snippetArrays, bundleNames, bundleSnippets,
                bundles, running, ran>>

\* ------------------------------------------------------------- formats
CJS == "cjs"
ESM == "esm"
IIFE == "iife"
UMD == "umd"

bundleFormatVariables == {CJS, ESM, IIFE, UMD}

\* Format extensions
ext(format) ==
    CASE format = CJS  -> <<"js">>
      [] format = ESM  -> <<"js">>
      [] format = IIFE -> <<"min", ".", "js">>
      [] format = UMD  -> <<"js">>

src == <<"packages", "/", "sinuous">>

destNoFormatDir(name, format) ==
    src \o <<"/", "dist", "/">> \o name \o <<".">> \o ext(format)

dest(name, format) ==
    src \o <<"/", "dist", "/", format, "/">> \o name \o <<".">> \o ext(format)

\* ------------------------------------------------------------- objects
Has(obj, key) == key \in DOMAIN obj

Omit(obj, keys) == [k \in DOMAIN obj \ keys |-> obj[k]]

Pick(obj, keys) == [k \in DOMAIN obj \cap keys |-> obj[k]]

\* `false` and `null` in a plugin array, removed by .filter(Boolean)
Falsy == [falsy |-> TRUE]

FilterBoolean(array) == SelectSeq(array, LAMBDA p : p # Falsy)

RECURSIVE Flat(_)
Flat(arrays) ==
    IF arrays = <<>> THEN <<>> ELSE Head(arrays) \o Flat(Tail(arrays))

\* ------------------------------------------------------------- the matrix
Word(w) == <<w>>

Sub(a, b) == <<a, "/", b>>

Snippet(name, formats, configSnippet) ==
    [name |-> name, formats |-> formats, configSnippet |-> configSnippet]

Std == <<ESM, UMD, IIFE>>

bundleSnippetCalls ==
    << Snippet(Word("htm"), Std,
           [input |-> "packages/sinuous/htm/src/index.js",
            output |-> [name |-> "htm"]]),
       Snippet(Word("hydrate"), Std,
           [input |-> "packages/sinuous/hydrate/src/index.js",
            external |-> <<Word("sinuous"), Sub("sinuous", "htm")>>,
            output |-> [name |-> "hydrate"]]),
       Snippet(Word("observable"), Std,
           [input |-> "packages/sinuous/observable/src/observable.js",
            output |-> [name |-> "observable"]]),
       Snippet(Word("h"), Std,
           [input |-> "packages/sinuous/h/src/index.js",
            output |-> [name |-> "h"]]),
       Snippet(Word("template"), Std,
           [input |-> "packages/sinuous/template/src/template.js",
            external |-> <<Word("sinuous")>>,
            output |-> [name |-> "template"]]),
       Snippet(Word("data"), Std,
           [input |-> "packages/sinuous/data/src/data.js",
            external |-> <<Word("sinuous"), Sub("sinuous", "template")>>,
            output |-> [name |-> "data"]]),
       Snippet(Word("memo"), Std,
           [input |-> "packages/sinuous/memo/src/memo.js",
            output |-> [name |-> "memo"]]),
       Snippet(Word("render"), Std,
           [input |-> "packages/sinuous/render/src/index.js",
            external |-> <<Word("sinuous"), Sub("sinuous", "template"),
                           Sub("sinuous", "htm")>>,
            output |-> [name |-> "render"]]),
       Snippet(Sub("map", "mini"), Std,
           [input |-> "packages/sinuous/map/mini/src/mini.js",
            external |-> <<Word("sinuous")>>,
            output |-> [name |-> "mini"]]),
       Snippet(Word("map"), Std,
           [input |-> "packages/sinuous/map/src/index.js",
            external |-> <<Word("sinuous")>>,
            output |-> [name |-> "map"]]),
       Snippet(Word("sinuous"), Std,
           [input |-> "packages/sinuous/src/index.js",
            external |-> <<Sub("sinuous", "observable"), Sub("sinuous", "htm")>>,
            output |-> [name |-> "sinuous"]]),
       Snippet(Word("sinuous-observable"), <<ESM>>,
           [input |-> "packages/sinuous/src/index.js",
            external |-> <<Sub("sinuous", "htm")>>,
            output |-> [sourcemap |-> FALSE]]),
       Snippet(Word("jsx"), Std,
           [input |-> "packages/sinuous/jsx/index.js",
            external |-> <<Sub("sinuous", "observable")>>,
            output |-> [name |-> "sinuous"]]),
       Snippet(Word("babel-plugin-htm"), <<ESM, CJS>>,
           [input |-> "packages/sinuous/babel-plugin-htm/src/index.js"]),
       Snippet(Word("all"), Std,
           [input |-> "packages/sinuous/all/src/index.js",
            output |-> [name |-> "window", extend |-> TRUE]]) >>

\* ------------------------------------------------------------- mk
perFormatConfigNoRest(name, format, configSnippet) ==
    LET output == IF Has(configSnippet, "output") THEN configSnippet.output
                  ELSE [k \in {} |-> k]
    IN  [output |-> output @@ [file |-> dest(name, format), format |-> format]]

perFormatConfigOutputName(name, format, configSnippet) ==
    LET output == IF Has(configSnippet, "output") THEN configSnippet.output
                  ELSE [k \in {} |-> k]
        rest   == Omit(configSnippet, {"output"})
        named  == IF Has(output, "name") THEN <<output.name>> ELSE name
    IN  rest @@ [output |-> output @@ [file |-> dest(named, format),
                                       format |-> format]]

\* One pass of mk's loop body: the config pushed for `format`.
perFormatConfig(name, format, configSnippet) ==
    LET output == IF Has(configSnippet, "output") THEN configSnippet.output
                  ELSE [k \in {} |-> k]
        rest   == Omit(configSnippet, {"output"})
    IN  rest @@ [output |-> output @@ [file |-> dest(name, format),
                                       format |-> format]]

\* The names mk pushes to bundleNames: one per format.
mkNamesOnce(name, formats) == <<name>>

mkNames(name, formats) == [j \in 1..Len(formats) |-> name]

\* The array mk returns.
mk(name, formats, configSnippet) ==
    [j \in 1..Len(formats) |-> perFormatConfig(name, formats[j], configSnippet)]

\* ------------------------------------------------------------- path
\* The "/"-separated segments of a path, each a token sequence.
RECURSIVE Segments(_)
Segments(p) ==
    IF \A i \in 1..Len(p) : p[i] # "/" THEN <<p>>
    ELSE LET i == CHOOSE i \in 1..Len(p) :
                      p[i] = "/" /\ \A j \in 1..(i - 1) : p[j] # "/"
         IN  <<SubSeq(p, 1, i - 1)>> \o Segments(SubSeq(p, i + 1, Len(p)))

RECURSIVE Join(_)
Join(segments) ==
    IF segments = <<>> THEN <<>>
    ELSE IF Len(segments) = 1 THEN segments[1]
    ELSE segments[1] \o <<"/">> \o Join(Tail(segments))

\* path.basename(p): what follows the last "/"
basename(p) == LET s == Segments(p) IN s[Len(s)]

CommonLen(a, b) ==
    LET n == IF Len(a) < Len(b) THEN Len(a) ELSE Len(b)
        same(k) == \A i \in 1..k : a[i] = b[i]
    IN  CHOOSE k \in 0..n : same(k) /\ \A m \in (k + 1)..n : ~same(m)

\* path.relative(from, to), for two relative paths without "." or ".."
\* segments (both are resolved against the same working directory): every
\* segment of `from` after the common prefix, the last one included, becomes
\* "..", and the rest of `to` follows.
relative(from, to) ==
    LET a  == Segments(from)
        b  == Segments(to)
        c  == CommonLen(a, b)
        up == [i \in 1..(Len(a) - c) |-> <<".", ".">>]
    IN  IF from = to THEN <<>> ELSE Join(up \o SubSeq(b, c + 1, Len(b)))

\* String.prototype.replace(pattern, replacement) with a string pattern: the
\* first occurrence only.
Occurs(s, pattern, i) ==
    /\ i + Len(pattern) - 1 <= Len(s)
    /\ SubSeq(s, i, i + Len(pattern) - 1) = pattern

ReplaceFirst(s, pattern, replacement) ==
    IF \E i \in 1..Len(s) : Occurs(s, pattern, i)
    THEN LET i == CHOOSE i \in 1..Len(s) :
                      /\ Occurs(s, pattern, i)
                      /\ \A j \in 1..(i - 1) : ~Occurs(s, pattern, j)
         IN  SubSeq(s, 1, i - 1) \o replacement
                 \o SubSeq(s, i + Len(pattern), Len(s))
    ELSE s

\* ------------------------------------------------------------- plugins
\* The plugin object replace(replacements, options) returns.  `pass` labels
\* the call site; it is what the run of a job records.
replace(pass, replacements, options) ==
    [plugin |-> "replace", pass |-> pass, replacements |-> replacements,
     options |-> options]

NoOptions == [k \in {} |-> k]

And(cond, plugin) == IF cond THEN plugin ELSE Falsy

nodeResolve == [plugin |-> "nodeResolve"]

bundleSize == [plugin |-> "bundleSize", columnWidth |-> 25]

pluginBabel == [plugin |-> "babel", babelHelpers |-> "bundled"]

pluginTerser == [plugin |-> "terser", sourcemap |-> TRUE, ecma |-> 2017]

\* Boolean(x) of a possibly absent boolean property
Boolean(obj, key) == IF Has(obj, key) THEN obj[key] ELSE FALSE

\* The import specifier as it stands in minified code: from"<id>"
FromLiteral(id) == <<"from", "\"">> \o id \o <<"\"">>

depPathNoCollapse(file, dep, format) ==
    ReplaceFirst(relative(file, dest(basename(dep), format)),
                 <<".", ".">>, <<".">>)

depPathOtherFormat(file, dep, format) ==
    ReplaceFirst(
        ReplaceFirst(relative(file, dest(basename(dep), UMD)),
                     <<".", ".">>, <<".">>),
        <<".", "/", ".", ".">>, <<".", ".">>)

\* const depPath = path.relative(file, dest(path.basename(dep), format))
\*   .replace('..', '.').replace('./..', '..')
depPath(file, dep, format) ==
    ReplaceFirst(
        ReplaceFirst(relative(file, dest(basename(dep), format)),
                     <<".", ".">>, <<".">>),
        <<".", "/", ".", ".">>, <<".", ".">>)

pluginReplaceImportsInverted(bundleConfig) ==
    IF Has(bundleConfig, "external") /\ Len(bundleConfig.external) # 0
    THEN Falsy
    ELSE replace("imports", <<>>,
                 [sourcemap |-> Boolean(bundleConfig.output, "sourcemap")])

pluginReplaceImportsAlways(bundleConfig) ==
    LET external == IF Has(bundleConfig, "external")
                    THEN bundleConfig.external ELSE <<>>
    IN  replace("imports",
            [i \in 1..Len(external) |->
                [search    |-> FromLiteral(external[i]),
                 eachMatch |-> FromLiteral(depPath(bundleConfig.output.file,
                                   external[i], bundleConfig.output.format))]],
            [sourcemap |-> Boolean(bundleConfig.output, "sourcemap")])

\* null without externals, else one replace plugin with one rule per external
pluginReplaceImportsESM(bundleConfig) ==
    IF ~Has(bundleConfig, "external") \/ Len(bundleConfig.external) = 0
    THEN Falsy
    ELSE LET external == bundleConfig.external
             format   == bundleConfig.output.format
             file     == bundleConfig.output.file
         IN  replace("imports",
                 [i \in 1..Len(external) |->
                     [search    |-> FromLiteral(external[i]),
                      eachMatch |-> FromLiteral(depPath(file, external[i], format))]],
                 [sourcemap |-> Boolean(bundleConfig.output, "sourcemap")])

\* ------------------------------------------------------------- rules
\* A regular expression is the sequence of its elements: a literal, one
\* character of a class, or a quantified class (`+` greedy, `+?` lazy).  The
\* class "." is any character but a line terminator.  An eachMatch is the
\* sequence of the parts of its template string: a literal, or the text
\* matched by the elements from..to of the expression (a capture group).
Lit(chars) == [kind |-> "lit", chars |-> chars]

One(class) == [kind |-> "one", class |-> class]

Greedy(class) == [kind |-> "greedy", class |-> class]

Lazy(class) == [kind |-> "lazy", class |-> class]

Group(from, to) == [kind |-> "group", from |-> from, to |-> to]

\* /const ([a-z])=/g, ([, x]) => `let ${x}=`
ruleConstLet ==
    [search |-> << Lit(<<"c", "o", "n", "s", "t", " ">>), One("a-z"), Lit(<<"=">>) >>,
     eachMatch |-> << Lit(<<"l", "e", "t", " ">>), Group(2, 2), Lit(<<"=">>) >>]

\* /let ([a-z]);let /g, ([, x]) => `let ${x},`
ruleLetMerge ==
    [search |-> << Lit(<<"l", "e", "t", " ">>), One("a-z"), Lit(<<";", "l", "e", "t", " ">>) >>,
     eachMatch |-> << Lit(<<"l", "e", "t", " ">>), Group(2, 2), Lit(<<",">>) >>]

\* /for\(var [a-z]=arguments.length,([a-z])=new Array.+?arguments\[[a-z]\]/g,
\* ([, x]) => `var ${x}=Array.from(arguments)`
ruleArguments ==
    [search |-> << Lit(<<"f", "o", "r", "(", "v", "a", "r", " ">>), One("a-z"),
                   Lit(<<"=", "a", "r", "g", "u", "m", "e", "n", "t", "s">>), One("."),
                   Lit(<<"l", "e", "n", "g", "t", "h", ",">>), One("a-z"),
                   Lit(<<"=", "n", "e", "w", " ", "A", "r", "r", "a", "y">>),
                   Lazy("."),
                   Lit(<<"a", "r", "g", "u", "m", "e", "n", "t", "s", "[">>),
                   One("a-z"), Lit(<<"]">>) >>,
     eachMatch |-> << Lit(<<"v", "a", "r", " ">>), Group(6, 6),
                      Lit(<<"=", "A", "r", "r", "a", "y", ".", "f", "r", "o", "m", "(", "a",
                       "r", "g", "u", "m", "e", "n", "t", "s", ")">>) >>]

\* /Object.defineProperty\(([a-z]),"([a-z]+)".+?return ([a-z.]+)}}\)/g,
\* ([, on, key, value]) => `${on}.${key}=${value}`
ruleDefineProperty ==
    [search |-> << Lit(<<"O", "b", "j", "e", "c", "t">>), One("."),
                   Lit(<<"d", "e", "f", "i", "n", "e", "P", "r", "o", "p", "e", "r", "t",
                       "y", "(">>),
                   One("a-z"), Lit(<<",", "\"">>), Greedy("a-z"), Lit(<<"\"">>),
                   Lazy("."),
                   Lit(<<"r", "e", "t", "u", "r", "n", " ">>),
                   Greedy("a-z."), Lit(<<"}", "}", ")">>) >>,
     eachMatch |-> << Group(4, 4), Lit(<<".">>), Group(6, 6), Lit(<<"=">>),
                      Group(10, 10) >>]

\* /var [a-z]=Array.from\(arguments\);return ([a-z.]+.apply\(.+?)[a-z]\)/g,
\* ([, partialApplyCall]) => `return ${partialApplyCall}arguments)`
ruleApply ==
    [search |-> << Lit(<<"v", "a", "r", " ">>), One("a-z"),
                   Lit(<<"=", "A", "r", "r", "a", "y">>), One("."),
                   Lit(<<"f", "r", "o", "m", "(", "a", "r", "g", "u", "m", "e", "n", "t",
                       "s", ")", ";", "r", "e", "t", "u", "r", "n", " ">>),
                   Greedy("a-z."), One("."),
                   Lit(<<"a", "p", "p", "l", "y", "(">>),
                   Lazy("."), One("a-z"), Lit(<<")">>) >>,
     eachMatch |-> << Lit(<<"r", "e", "t", "u", "r", "n", " ">>),
                      Group(6, 9),
                      Lit(<<"a", "r", "g", "u", "m", "e", "n", "t", "s", ")">>) >>]

outputPluginsImportsLast(rollupConfig) ==
    LET format  == rollupConfig.output.format
        plugins == IF Has(rollupConfig.output, "plugins")
                   THEN rollupConfig.output.plugins ELSE <<>>
    IN  FilterBoolean(
          << bundleSize,
             And(format \in {ESM, UMD, IIFE}, pluginTerser),
             And(format \in {ESM}, replace("constLet", <<ruleConstLet>>, NoOptions)),
             And(format \in {ESM}, replace("letMerge", <<ruleLetMerge>>, NoOptions)),
             And(format \in {ESM}, pluginReplaceImportsESM(rollupConfig)),
             And(format \in {UMD, IIFE},
                 replace("umd", <<ruleArguments, ruleDefineProperty>>, NoOptions)),
             And(format \in {UMD, IIFE}, replace("apply", <<ruleApply>>, NoOptions))
          >> \o plugins)

outputPluginsMergeFirst(rollupConfig) ==
    LET format  == rollupConfig.output.format
        plugins == IF Has(rollupConfig.output, "plugins")
                   THEN rollupConfig.output.plugins ELSE <<>>
    IN  FilterBoolean(
          << bundleSize,
             And(format \in {ESM, UMD, IIFE}, pluginTerser),
             And(format \in {ESM}, pluginReplaceImportsESM(rollupConfig)),
             And(format \in {ESM}, replace("letMerge", <<ruleLetMerge>>, NoOptions)),
             And(format \in {ESM}, replace("constLet", <<ruleConstLet>>, NoOptions)),
             And(format \in {UMD, IIFE},
                 replace("umd", <<ruleArguments, ruleDefineProperty>>, NoOptions)),
             And(format \in {UMD, IIFE}, replace("apply", <<ruleApply>>, NoOptions))
          >> \o plugins)

\* output.plugins of makeBundleConfigs
outputPlugins(rollupConfig) ==
    LET format  == rollupConfig.output.format
        plugins == IF Has(rollupConfig.output, "plugins")
                   THEN rollupConfig.output.plugins ELSE <<>>
    IN  FilterBoolean(
          << bundleSize,
             And(format \in {ESM, UMD, IIFE}, pluginTerser),
             And(format \in {ESM}, pluginReplaceImportsESM(rollupConfig)),
             And(format \in {ESM}, replace("constLet", <<ruleConstLet>>, NoOptions)),
             And(format \in {ESM}, replace("letMerge", <<ruleLetMerge>>, NoOptions)),
             And(format \in {UMD, IIFE},
                 replace("umd", <<ruleArguments, ruleDefineProperty>>, NoOptions)),
             And(format \in {UMD, IIFE}, replace("apply", <<ruleApply>>, NoOptions))
          >> \o plugins)

makeBundleConfigs(rollupConfig) ==
    LET external   == IF Has(rollupConfig, "external")
                      THEN rollupConfig.external ELSE <<>>
        output     == rollupConfig.output
        format     == output.format
        restOutput == Omit(output, {"format", "plugins"})
        rest       == Omit(rollupConfig, {"input", "external", "output"})
    IN  rest @@ [watch |-> [clearScreen |-> FALSE]]
             @@ [output |->
                   restOutput @@ [format    |-> format,
                                  sourcemap |-> TRUE,
                                  plugins   |-> outputPlugins(rollupConfig),
                                  strict    |-> FALSE,
                                  interop   |-> FALSE,
                                  freeze    |-> FALSE,
                                  esModule  |-> FALSE]]
             @@ [plugins |-> FilterBoolean(
                     <<nodeResolve, And(format \in {UMD, IIFE}, pluginBabel)>>)]
             @@ [external |-> external]
             @@ Pick(rollupConfig, {"input"})

\* ------------------------------------------------------------- evaluation
Init ==
    /\ descriptors = bundleSnippetCalls
    /\ pc = "expand"
    /\ snippetArrays = <<>>
    /\ bundleNames = <<>>
    /\ bundleSnippets = <<>>
    /\ bundles = <<>>
    /\ running = 0
    /\ ran = <<>>
    /\ batteryFormat = ESM
    /\ code = <<>>
    /\ runs = 0
    /\ first = <<>>

\* The next mk(...) call of the array literal.
Mk ==
    /\ pc = "expand"
    /\ Len(snippetArrays) < Len(descriptors)
    /\ LET d == descriptors[Len(snippetArrays) + 1]
       IN  /\ bundleNames' = bundleNames \o mkNames(d.name, d.formats)
           /\ snippetArrays' =
                  Append(snippetArrays, mk(d.name, d.formats, d.configSnippet))
    /\ UNCHANGED <<descriptors, pc, bundleSnippets, bundles, running, ran, batteryVars>>

\* .flat()
FlatSnippets ==
    /\ pc = "expand"
    /\ Len(snippetArrays) = Len(descriptors)
    /\ bundleSnippets' = Flat(snippetArrays)
    /\ pc' = "map"
    /\ UNCHANGED <<descriptors, snippetArrays, bundleNames, bundles, running, ran, batteryVars>>

MakeBundleConfigsEager ==
    /\ pc = "expand"
    /\ Len(bundles) < Len(Flat(snippetArrays))
    /\ bundles' = Append(bundles,
                         makeBundleConfigs(Flat(snippetArrays)[Len(bundles) + 1]))
    /\ UNCHANGED <<descriptors, pc, snippetArrays, bundleNames, bundleSnippets,
                   running, ran, batteryVars>>

\* bundleSnippets.map(makeBundleConfigs): the call for the next element.
MakeBundleConfigs ==
    /\ pc = "map"
    /\ Len(bundles) < Len(bundleSnippets)
    /\ bundles' = Append(bundles, makeBundleConfigs(bundleSnippets[Len(bundles) + 1]))
    /\ UNCHANGED <<descriptors, pc, snippetArrays, bundleNames, bundleSnippets,
                   running, ran, batteryVars>>

\* export { bundles, bundleNames }
Export ==
    /\ pc = "map"
    /\ Len(bundles) = Len(bundleSnippets)
    /\ pc' = "exported"
    /\ UNCHANGED <<descriptors, snippetArrays, bundleNames, bundleSnippets,
                   bundles, running, ran, batteryVars>>

\* Rollup takes one exported config and generates its output.
StartBuild ==
    /\ pc = "exported"
    /\ running = 0
    /\ \E i \in 1..Len(bundles) : running' = i
    /\ ran' = <<>>
    /\ UNCHANGED <<descriptors, pc, snippetArrays, bundleNames, bundleSnippets,
                   bundles, batteryVars>>

PassId(plugin) == IF plugin.plugin = "replace" THEN plugin.pass ELSE plugin.plugin

\* Rollup runs the output plugins of the job one after the other, in the
\* order of output.plugins.
RenderChunk ==
    /\ running # 0
    /\ Len(ran) < Len(bundles[running].output.plugins)
    /\ ran' = Append(ran, PassId(bundles[running].output.plugins[Len(ran) + 1]))
    /\ UNCHANGED <<descriptors, pc, snippetArrays, bundleNames, bundleSnippets,
                   bundles, running, batteryVars>>

EndBuild ==
    /\ running # 0
    /\ Len(ran) = Len(bundles[running].output.plugins)
    /\ running' = 0
    /\ ran' = <<>>
    /\ UNCHANGED <<descriptors, pc, snippetArrays, bundleNames, bundleSnippets,
                   bundles, batteryVars>>

Next ==
    \/ Mk
    \/ FlatSnippets
    \/ MakeBundleConfigs
    \/ Export
    \/ StartBuild
    \/ RenderChunk
    \/ EndBuild

Spec == Init /\ [][Next]_vars

\* ------------------------------------------------------------- drawn matrices
\* mk and makeBundleConfigs on descriptor lists other than the configured
\* one: a dependent `ui` at some directory depth, with a format list without
\* repetition, next to a `core` that is built for some formats or for none.
MaxFormats == 2

MaxDepth == 2

RECURSIVE NameAt(_)
NameAt(depth) ==
    IF depth = 0 THEN <<"ui">> ELSE <<"pkg", "/">> \o NameAt(depth - 1)

FormatLists ==
    { f \in UNION { [1..n -> bundleFormatVariables] : n \in 0..MaxFormats } :
        \A i, j \in DOMAIN f : i # j => f[i] # f[j] }

DrawnInputs ==
    { [k \in {} |-> k],
      [input |-> ""],
      [input |-> "packages/sinuous/ui/src/index.js"] }

DrawnExternals ==
    { [k \in {} |-> k],
      [external |-> <<>>],
      [external |-> <<Sub("sinuous", "core"), Word("ghost")>>] }

DrawnOutputs ==
    { [k \in {} |-> k],
      [output |-> [name |-> "ui"]],
      [output |-> [sourcemap |-> FALSE]] }

DrawnDependents ==
    { Snippet(NameAt(depth), formats, i @@ e @@ o) :
        depth \in 0..MaxDepth, formats \in FormatLists,
        i \in DrawnInputs, e \in DrawnExternals, o \in DrawnOutputs }

DrawnCores ==
    { Snippet(Word("core"), formats,
              [input |-> "packages/sinuous/core/src/index.js"]) :
        formats \in {<<>>, <<ESM>>, <<UMD, ESM>>} }

InitDrawn ==
    /\ descriptors \in
          { <<d, c>> : d \in DrawnDependents, c \in DrawnCores }
              \cup { <<c, d>> : d \in DrawnDependents, c \in DrawnCores }
    /\ pc = "expand"
    /\ snippetArrays = <<>>
    /\ bundleNames = <<>>
    /\ bundleSnippets = <<>>
    /\ bundles = <<>>
    /\ running = 0
    /\ ran = <<>>
    /\ batteryFormat = ESM
    /\ code = <<>>
    /\ runs = 0
    /\ first = <<>>

NextDrawn ==
    \/ Mk
    \/ FlatSnippets
    \/ MakeBundleConfigs
    \/ Export

SpecDrawn == InitDrawn /\ [][NextDrawn]_vars

\* ------------------------------------------------------------- patch engine
Letters ==
    {"a", "b", "c", "d", "e", "f", "g", "h", "i", "j", "k", "l", "m",
     "n", "o", "p", "q", "r", "s", "t", "u", "v", "w", "x", "y", "z"}

InClass(c, class) ==
    CASE class = "a-z"  -> c \in Letters
      [] class = "a-z." -> c \in Letters \cup {"."}
      [] class = "."    -> c \notin {"\n", "\r"}

\* Number of characters from position i on that are all of the class.
RunLength(text, i, class) ==
    CHOOSE n \in 0..(Len(text) - i + 1) :
        /\ \A j \in 0..(n - 1) : InClass(text[i + j], class)
        /\ n < Len(text) - i + 1 => ~InClass(text[i + n], class)

Minimum(S) == CHOOSE n \in S : \A m \in S : n <= m

Maximum(S) == CHOOSE n \in S : \A m \in S : n >= m

\* The match of the elements k.. of `search` at position i, as a backtracking
\* matcher finds it: <<>> when there is none, else the positions at which
\* the elements k, k+1, ... start, followed by the position after the match.
\* A lazy quantifier takes the fewest characters that let the rest match, a
\* greedy one the most.
RECURSIVE MatchFrom(_, _, _, _)
MatchFrom(search, k, text, i) ==
    IF k > Len(search) THEN <<i>>
    ELSE LET el == search[k]
             then(n) == LET r == MatchFrom(search, k + 1, text, i + n)
                        IN  IF r = <<>> THEN <<>> ELSE <<i>> \o r
         IN  CASE el.kind = "lit" ->
                    IF Occurs(text, el.chars, i) THEN then(Len(el.chars)) ELSE <<>>
               [] el.kind = "one" ->
                    IF i <= Len(text) /\ InClass(text[i], el.class)
                    THEN then(1) ELSE <<>>
               [] el.kind \in {"lazy", "greedy"} ->
                    LET fits == { n \in 1..RunLength(text, i, el.class) :
                                    MatchFrom(search, k + 1, text, i + n) # <<>> }
                    IN  IF fits = {} THEN <<>>
                        ELSE IF el.kind = "lazy" THEN then(Minimum(fits))
                        ELSE then(Maximum(fits))

\* The first position from i on at which `search` matches, 0 when none.
FirstMatch(search, text, i) ==
    LET at == { s \in i..Len(text) : MatchFrom(search, 1, text, s) # <<>> }
    IN  IF at = {} THEN 0 ELSE Minimum(at)

\* The text eachMatch returns for a match at the positions m.
RECURSIVE Expand(_, _, _)
Expand(eachMatch, text, m) ==
    IF eachMatch = <<>> THEN <<>>
    ELSE LET part == Head(eachMatch)
         IN  (IF part.kind = "lit" THEN part.chars
              ELSE SubSeq(text, m[part.from], m[part.to + 1] - 1))
                 \o Expand(Tail(eachMatch), text, m)

\* One rule on a text: every match, left to right, each search resuming
\* after the previous match.
RECURSIVE ReplaceAll(_, _, _)
ReplaceAll(rule, text, i) ==
    LET s == FirstMatch(rule.search, text, i)
    IN  IF s = 0 THEN SubSeq(text, i, Len(text))
        ELSE LET m == MatchFrom(rule.search, 1, text, s)
             IN  SubSeq(text, i, s - 1) \o Expand(rule.eachMatch, text, m)
                     \o ReplaceAll(rule, text, m[Len(m)])

\* The rules of one replace plugin, in list order, each on the text the
\* previous one left.  Only the UMD/IIFE plugin with the arguments-loop and
\* defineProperty rules holds more than one rule; the ESM rules and the
\* apply-wrapper rule are plugins of their own ("separate replace calls"),
\* for which list order within a plugin plays no part.
RECURSIVE ApplyRules(_, _)
ApplyRules(rules, text) ==
    IF rules = <<>> THEN text
    ELSE ApplyRules(Tail(rules), ReplaceAll(Head(rules), text, 1))

\* The cleanup plugins of a job of `format`: its replace plugins but the
\* import rewrite.
CleanupBattery(format) ==
    SelectSeq(outputPlugins([output |-> [format |-> format]]),
              LAMBDA p : p.plugin = "replace" /\ p.pass # "imports")

RECURSIVE RunPlugins(_, _)
RunPlugins(plugins, text) ==
    IF plugins = <<>> THEN text
    ELSE RunPlugins(Tail(plugins), ApplyRules(Head(plugins).replacements, text))

\* ------------------------------------------------------------- battery runs
MaxFragments == 3

\* Pieces of minified code the texts are put together from.
Fragments(format) ==
    IF format = ESM
    THEN { \* const a=
           <<"c", "o", "n", "s", "t", " ", "a", "=">>,
           \* 1;
           <<"1", ";">>,
           \* let a;
           <<"l", "e", "t", " ", "a", ";">>,
           \* let b;
           <<"l", "e", "t", " ", "b", ";">>,
           \* let 
           <<"l", "e", "t", " ">>,
           \* c=2;
           <<"c", "=", "2", ";">> }
    ELSE { \* var b=Array.from(arguments);
           <<"v", "a", "r", " ", "b", "=", "A", "r", "r", "a", "y", ".",
             "f", "r", "o", "m", "(", "a", "r", "g", "u", "m",
             "e", "n", "t", "s", ")", ";">>,
           \* return f.apply(t,b)
           <<"r", "e", "t", "u", "r", "n", " ", "f", ".", "a", "p", "p",
             "l", "y", "(", "t", ",", "b", ")">>,
           \* for(var a=arguments.length,b=new Array(a),c=0;c<a;c++)b[c]=arguments[c];
           <<"f", "o", "r", "(", "v", "a", "r", " ", "a", "=", "a", "r",
             "g", "u", "m", "e", "n", "t", "s", ".", "l", "e",
             "n", "g", "t", "h", ",", "b", "=", "n", "e", "w",
             " ", "A", "r", "r", "a", "y", "(", "a", ")", ",",
             "c", "=", "0", ";", "c", "<", "a", ";", "c", "+",
             "+", ")", "b", "[", "c", "]", "=", "a", "r", "g",
             "u", "m", "e", "n", "t", "s", "[", "c", "]", ";">>,
           \* Object.defineProperty(o,"k",{get:function(){return a.b}})
           <<"O", "b", "j", "e", "c", "t", ".", "d", "e", "f", "i", "n",
             "e", "P", "r", "o", "p", "e", "r", "t", "y", "(",
             "o", ",", "\"", "k", "\"", ",", "{", "g", "e", "t",
             ":", "f", "u", "n", "c", "t", "i", "o", "n", "(",
             ")", "{", "r", "e", "t", "u", "r", "n", " ", "a",
             ".", "b", "}", "}", ")">>,
           \* function(){
           <<"f", "u", "n", "c", "t", "i", "o", "n", "(", ")", "{">> }

Texts(format) ==
    { Flat(f) : f \in UNION { [1..n -> Fragments(format)] : n \in 0..MaxFragments } }

InitBattery ==
    /\ batteryFormat \in {ESM, UMD, IIFE}
    /\ code \in Texts(batteryFormat)
    /\ runs = 0
    /\ first = <<>>
    /\ descriptors = <<>>
    /\ pc = "battery"
    /\ snippetArrays = <<>>
    /\ bundleNames = <<>>
    /\ bundleSnippets = <<>>
    /\ bundles = <<>>
    /\ running = 0
    /\ ran = <<>>

\* The cleanup battery of the format on the chunk, a first and a second time.
RunBattery ==
    /\ pc = "battery"
    /\ runs < 2
    /\ code' = RunPlugins(CleanupBattery(batteryFormat), code)
    /\ first' = IF runs = 0 THEN code' ELSE first
    /\ runs' = runs + 1
    /\ UNCHANGED <<batteryFormat, matrixVars>>

NextBattery == RunBattery

SpecBattery == InitBattery /\ [][NextBattery]_vars

\* ------------------------------------------------------------- claims
\* The path the naming convention gives descriptor `name` in `format`.
ExpectedPath(name, format) ==
    <<"packages", "/", "sinuous", "/", "dist", "/", format, "/">> \o name
        \o <<".">> \o (IF format = "iife" THEN <<"min", ".", "js">> ELSE <<"js">>)

\* Number of jobs expanded from the descriptors before the k-th.
RECURSIVE Offset(_)
Offset(k) == IF k <= 1 THEN 0 ELSE Offset(k - 1) + Len(descriptors[k - 1].formats)

\* The descriptor the i-th job is expanded from, and its format.
Origin(i) ==
    CHOOSE k \in 1..Len(descriptors) :
        Offset(k) < i /\ i <= Offset(k) + Len(descriptors[k].formats)

OriginFormat(i) == descriptors[Origin(i)].formats[i - Offset(Origin(i))]

ExternalsOf(config) == IF Has(config, "external") THEN config.external ELSE <<>>

ImportsOf(job) ==
    SelectSeq(job.output.plugins,
              LAMBDA p : p.plugin = "replace" /\ p.pass = "imports")

\* The passes that transform the chunk (bundleSize only reports sizes).
Passes(job) ==
    LET transforming == SelectSeq(job.output.plugins,
                                  LAMBDA p : p.plugin # "bundleSize")
    IN  [i \in 1..Len(transforming) |-> PassId(transforming[i])]

\* from"<path>" without from" and the closing quote
Unquote(literal) == SubSeq(literal, 3, Len(literal) - 1)

DepName(dep) == LET s == Segments(dep) IN s[Len(s)]

RECURSIVE Normalize(_, _)
Normalize(stack, segments) ==
    IF segments = <<>> THEN stack
    ELSE LET s == Head(segments)
         IN  IF s = <<".">> THEN Normalize(stack, Tail(segments))
             ELSE IF s = <<".", ".">>
                  THEN Normalize(SubSeq(stack, 1, Len(stack) - 1), Tail(segments))
                  ELSE Normalize(Append(stack, s), Tail(segments))

\* The file a relative import path names, seen from a file in `dir`.
ResolveAgainst(dir, path) == Join(Normalize(Segments(dir), Segments(path)))

DirOf(file) == LET s == Segments(file) IN Join(SubSeq(s, 1, Len(s) - 1))

StartsRelative(path) ==
    \/ Len(path) >= 2 /\ SubSeq(path, 1, 2) = <<".", "/">>
    \/ Len(path) >= 3 /\ SubSeq(path, 1, 3) = <<".", ".", "/">>

\* C1: every descriptor expands to one job per format, in the order of its
\* format list; job j has format f_j and the output path
\* packages/sinuous/dist/<f_j>/<name>.<ext>, ext being min.js for iife and js
\* otherwise; the paths of one descriptor are pairwise distinct.
C1_MatrixExpansion ==
    \A k \in 1..Len(snippetArrays) :
        LET d    == descriptors[k]
            jobs == snippetArrays[k]
        IN  /\ Len(jobs) = Len(d.formats)
            /\ \A j \in 1..Len(jobs) :
                   /\ jobs[j].output.format = d.formats[j]
                   /\ jobs[j].output.file = ExpectedPath(d.name, d.formats[j])
            /\ \A i, j \in 1..Len(jobs) :
                   i # j => jobs[i].output.file # jobs[j].output.file

C1_Witness ==
    \E k \in 1..Len(snippetArrays) :
        /\ Len(snippetArrays[k]) >= 2
        /\ \E j \in 1..Len(snippetArrays[k]) :
               snippetArrays[k][j].output.format = IIFE

\* C2: in the configured matrix, every import rewrite of an ESM job replaces
\* from"d" by a relative path that, resolved against the directory of the
\* job's output file, is the output path of an ESM job of the matrix, namely
\* the ESM artifact of the dependency; it is never the bare identifier.
C2_ReferenceClosure ==
    \A i \in 1..Len(bundles) :
        LET job     == bundles[i]
            imports == ImportsOf(job)
            esm     == { bundleSnippets[k].output.file :
                           k \in { k \in 1..Len(bundleSnippets) :
                                     bundleSnippets[k].output.format = ESM } }
        IN  job.output.format = ESM /\ job.external # <<>> =>
              /\ Len(imports) = 1
              /\ Len(imports[1].replacements) = Len(job.external)
              /\ \A e \in 1..Len(job.external) :
                   LET d      == job.external[e]
                       rule   == imports[1].replacements[e]
                       path   == Unquote(rule.eachMatch)
                       target == ResolveAgainst(DirOf(job.output.file), path)
                   IN  /\ rule.search = <<"from", "\"">> \o d \o <<"\"">>
                       /\ StartsRelative(path)
                       /\ path # d
                       /\ target \in esm
                       /\ target = ExpectedPath(DepName(d), ESM)

C2_Witness ==
    /\ pc = "exported"
    /\ \E i \in 1..Len(bundles) :
           /\ bundles[i].output.file = ExpectedPath(<<"map", "/", "mini">>, ESM)
           /\ Unquote(ImportsOf(bundles[i])[1].replacements[1].eachMatch)
                  = <<".", ".", "/", "sinuous", ".", "js">>

RECURSIVE UpTo(_)
UpTo(depth) == IF depth = 0 THEN <<>> ELSE <<".", ".", "/">> \o UpTo(depth - 1)

\* C3: a dependency artifact in the format's root directory is referenced
\* as ./<file> from a file of that directory, ../<file> from a file one
\* directory below and ../../<file> from two below; the path starts with ./
\* or ../ and no "." segment of it is followed by a ".." segment.
C3_PathNormalization ==
    \A i \in 1..Len(bundles) :
        LET job   == bundles[i]
            depth == Len(Segments(descriptors[Origin(i)].name)) - 1
        IN  job.output.format = ESM /\ job.external # <<>> =>
              \A e \in 1..Len(job.external) :
                  LET path == Unquote(ImportsOf(job)[1].replacements[e].eachMatch)
                      file == DepName(job.external[e]) \o <<".", "js">>
                      segs == Segments(path)
                  IN  /\ path = (IF depth = 0 THEN <<".", "/">> ELSE UpTo(depth))
                                    \o file
                      /\ StartsRelative(path)
                      /\ \A n \in 1..(Len(segs) - 1) :
                             ~(segs[n] = <<".">> /\ segs[n + 1] = <<".", ".">>)

C3_Witness ==
    \E i \in 1..Len(bundles) :
        /\ bundles[i].output.format = ESM
        /\ bundles[i].output.file = ExpectedPath(<<"pkg", "/", "ui">>, ESM)
        /\ bundles[i].external # <<>>
        /\ Unquote(ImportsOf(bundles[i])[1].replacements[1].eachMatch)
               = <<".", ".", "/", "core", ".", "js">>

Rank(pass) ==
    CASE pass = "bundleSize" -> 0
      [] pass = "terser"     -> 1
      [] pass = "imports"    -> 2
      [] pass = "constLet"   -> 3
      [] pass = "letMerge"   -> 4

\* C4: the passes of an ESM job run in the order minifier, import rewrite,
\* const-to-let, let-merge; the import rewrite never runs after a cleanup rule,
\* and a finished job has run the minifier and both cleanup rules.
C4_PassOrder ==
    running # 0 /\ bundles[running].output.format = ESM =>
        /\ \A p, q \in 1..Len(ran) : p < q => Rank(ran[p]) < Rank(ran[q])
        /\ Len(ran) = Len(bundles[running].output.plugins) =>
               /\ {"terser", "constLet", "letMerge"} \subseteq
                      { ran[p] : p \in 1..Len(ran) }
               /\ bundles[running].external # <<>> =>
                      "imports" \in { ran[p] : p \in 1..Len(ran) }

C4_Witness ==
    /\ running # 0
    /\ bundles[running].output.format = ESM
    /\ bundles[running].external # <<>>
    /\ ran = <<"bundleSize", "terser", "imports", "constLet", "letMerge">>

\* Whether some descriptor named like the dependency is built for `format`.
Resolved(dep, format) ==
    \E k \in 1..Len(descriptors) :
        /\ descriptors[k].name = DepName(dep)
        /\ \E j \in 1..Len(descriptors[k].formats) :
               descriptors[k].formats[j] = format

ExpectedPasses(format, external) ==
    CASE format = ESM ->
           <<"terser">> \o (IF external # <<>> THEN <<"imports">> ELSE <<>>)
               \o <<"constLet", "letMerge">>
      [] format \in {UMD, IIFE} -> <<"terser", "umd", "apply">>
      [] format = CJS -> <<>>

\* C6: a job's chain holds an import rewrite exactly when the job is ESM
\* and lists at least one external; every other job runs the minifier (not
\* for cjs) and the cleanup battery of its format, and nothing else.
C6_ImportRewritePresence ==
    \A i \in 1..Len(bundles) :
        LET job      == bundles[i]
            external == ExternalsOf(bundleSnippets[i])
        IN  /\ Len(ImportsOf(job)) <= 1
            /\ Len(ImportsOf(job)) = 1 <=>
                   (job.output.format = ESM /\ external # <<>>)
            /\ Passes(job) = ExpectedPasses(job.output.format, external)

C6_Witness ==
    \E i, j \in 1..Len(bundles) :
        /\ bundles[i].output.format = ESM
        /\ bundles[i].external # <<>>
        /\ Len(ImportsOf(bundles[i])) = 1
        /\ bundles[j].output.format = ESM
        /\ bundles[j].external = <<>>
        /\ ImportsOf(bundles[j]) = <<>>

\* C7 as claimed: the sourcemap flag handed to the import rewrite equals the
\* sourcemap setting the job's output is built with.
C7_SourcemapFlag ==
    \A i \in 1..Len(bundles) :
        ImportsOf(bundles[i]) # <<>> =>
            ImportsOf(bundles[i])[1].options.sourcemap = bundles[i].output.sourcemap

EmptyInput(config) == ~Has(config, "input") \/ config.input = ""

BatteryMatches(format, text) ==
    \E p \in 1..Len(CleanupBattery(format)) :
        \E r \in 1..Len(CleanupBattery(format)[p].replacements) :
            FirstMatch(CleanupBattery(format)[p].replacements[r].search, text, 1) # 0

\* C9 as claimed: for each format's battery and every text, a second run of
\* the battery leaves the output of the first run as it is.
C9_BatteryIdempotent == runs = 2 => code = first

\* C9 amended: the ESM battery (const-to-let, then let-merge) is idempotent
\* on every text: no rule matches the battery's output and a second run
\* changes nothing.  The UMD/IIFE battery is not.
C9_EsmBatteryIdempotent ==
    batteryFormat = ESM =>
        /\ runs >= 1 => ~BatteryMatches(ESM, code)
        /\ runs = 2 => code = first

\* let a=let a,b;  (from  const a=let a;let b; )
C9_Witness ==
    /\ batteryFormat = ESM
    /\ runs = 2
    /\ code = <<"l", "e", "t", " ", "a", "=", "l", "e", "t", " ", "a", ",",
              "b", ";">>

RECURSIVE JobCount(_)
JobCount(k) == IF k = 0 THEN 0 ELSE JobCount(k - 1) + Len(descriptors[k].formats)

\* C11: no import-rewrite path is computed before every descriptor is
\* expanded: as soon as one config is completed, all mk calls have returned
\* and the flattened list holds every job of the matrix.  The path a job gets
\* for an external depends on the job's own name and the external only, so
\* it is the same whether the dependency is listed before or after it.
C11_ExpandAllBarrier ==
    /\ bundles # <<>> =>
           /\ pc \in {"map", "exported"}
           /\ Len(snippetArrays) = Len(descriptors)
           /\ Len(bundleSnippets) = JobCount(Len(descriptors))
           /\ bundleSnippets = Flat(snippetArrays)
    /\ \A i \in 1..Len(bundles) :
           LET job   == bundles[i]
               depth == Len(Segments(descriptors[Origin(i)].name)) - 1
           IN  \A p \in 1..Len(ImportsOf(job)) :
                   \A e \in 1..Len(ImportsOf(job)[p].replacements) :
                       Unquote(ImportsOf(job)[p].replacements[e].eachMatch)
                           = (IF depth = 0 THEN <<".", "/">> ELSE UpTo(depth))
                                 \o DepName(job.external[e]) \o <<".", "js">>

\* The dependent is listed first, its dependency is expanded by the later mk
\* call, and the dependent's import path is resolved.
C11_Witness ==
    /\ Len(descriptors) = 2
    /\ descriptors[1].name = <<"ui">>
    /\ descriptors[2].name = <<"core">>
    /\ descriptors[2].formats = <<ESM>>
    /\ \E i \in 1..Len(bundles) :
           /\ Origin(i) = 1
           /\ bundles[i].output.format = ESM
           /\ Len(ImportsOf(bundles[i])) = 1
           /\ Unquote(ImportsOf(bundles[i])[1].replacements[1].eachMatch)
                  = <<".", "/", "core", ".", "js">>

\* C12: no two distinct jobs of the expanded matrix, of one descriptor or of
\* two, have the same output file.
C12_NoArtifactCollision ==
    /\ \A i, j \in 1..Len(bundleSnippets) :
           i # j => bundleSnippets[i].output.file # bundleSnippets[j].output.file
    /\ \A i, j \in 1..Len(bundles) :
           i # j => bundles[i].output.file # bundles[j].output.file

C12_Witness ==
    /\ pc = "exported"
    /\ Len(bundles) = JobCount(Len(descriptors))
    /\ \E i, j \in 1..Len(bundles) :
           /\ bundles[i].output.file = ExpectedPath(<<"map", "/", "mini">>, UMD)
           /\ bundles[j].output.file = ExpectedPath(<<"map">>, UMD)

====
